---- MODULE Spec2Model ----
(***************************************************************************)
(* Model of lru-list (src/index.js): a storage agnostic LRU list made of a *)
(* doubly-linked list of LRUEntry objects, a key map and a size counter.   *)
(* Values live in a caller supplied store reached through set/get/del.     *)
(*                                                                         *)
(* Entries are numbered 1, 2, ... in the order `new LRUEntry(key)` creates *)
(* them; the reference `undefined` is the number 0.  Keys are opaque: no   *)
(* key names a property that the key map inherits from Object.prototype.   *)
(* Every store call either succeeds (err = null) or reports an error.      *)
(* Public calls are issued after the previous call's done() fired (serial  *)
(* use), as one step each or as a call step and its callback steps; in     *)
(* SpecOverlap puts are issued while others wait for the store.            *)
(***************************************************************************)
EXTENDS Integers, Sequences, FiniteSets, TLC

\* ---------------------------------------------------------------- bounds
\* Runs in which store calls may fail: the keys used, the largest limit and
\* the number of entries created.
NumKeys == 2
MaxLimit == 2
MaxEntries == 2
\* Runs in which no store call fails.
NumOkKeys == 3
MaxOkLimit == 4
MaxOkEntries == 4
\* Runs in which calls and store callbacks are separate steps.
NumCallKeys == 1
MaxCallLimit == 1
MaxCallEntries == 2
\* Overlapping puts: the calls that may wait for the store at one time.
MaxInflight == 2

Keys == 1..NumKeys
OkKeys == 1..NumOkKeys
CallKeys == 1..NumCallKeys
AllKeys == (Keys \cup OkKeys) \cup CallKeys
Undefined == 0
NoErr == "null"
Errs == {"e1", "e2"}
Outcomes == {NoErr} \cup Errs

\* size, head, tail, limit, keymap: the fields of the LRUList.
\* key, older, newer: the fields of the entries, by entry number.
\* store: the keys the caller's store holds a value for (a successful set
\*   adds the key, a successful del takes it out).
\* last: what the last public call did and what its done() received.
\* recency: the keys of the key map, least recently put or got first.
\* pending: the public calls that wait for a store callback, each with the
\*   store call it waits for and what its closure captured.
VARIABLES size, head, tail, limit, keymap, key, older, newer,
          store, last, recency, pending

struct == <<size, head, tail, keymap, key, older, newer>>
vars == <<size, head, tail, limit, keymap, key, older, newer,
          store, last, recency, pending>>

\* The fields of `this` that the operations read and write, as one record.
Self ==
  [size |-> size, head |-> head, tail |-> tail, keymap |-> keymap,
   key |-> key, older |-> older, newer |-> newer]

\* ------------------------------------------------------------- helpers
\* Sequence s without the element x.
Without(s, x) == SelectSeq(s, LAMBDA y : y # x)

RECURSIVE Walk(_, _, _)
\* The entries met from entry e on by following newer links, at most n.
Walk(L, e, n) ==
  IF e = Undefined \/ n = 0 THEN <<>>
  ELSE <<e>> \o Walk(L, L.newer[e], n - 1)

\* The entries toArray() visits: head, head.newer, ...
ChainOf(L) == Walk(L, L.head, Len(L.key))

\* toArray(): the keys of the visited entries, head first.
ToArrayOf(L) == [i \in 1..Len(ChainOf(L)) |-> L.key[ChainOf(L)[i]]]

Chain == ChainOf(Self)
toArray == ToArrayOf(Self)

\* ---------------------------------------------------------- operations
\* A put callback without `self.tail = entry` when the list has a tail: the
\* next entry is linked after the same, stale tail.
PutLinkStaleTail(L, k) ==
  LET entry == Len(L.key) + 1
      L1 == [L EXCEPT !.key = Append(L.key, k),
                      !.older = Append(L.older, Undefined),
                      !.newer = Append(L.newer, Undefined),
                      !.keymap[k] = entry]
  IN IF L.tail # Undefined
       THEN [L1 EXCEPT !.newer[L.tail] = entry, !.older[entry] = L.tail]
       ELSE [L1 EXCEPT !.head = entry, !.tail = entry]

\* put/storeIODone past the err test, up to `self.tail = entry`: a new
\* entry is put in the key map and linked after the tail.
PutLink(L, k) ==
  LET entry == Len(L.key) + 1
      L1 == [L EXCEPT !.key = Append(L.key, k),
                      !.older = Append(L.older, Undefined),
                      !.newer = Append(L.newer, Undefined),
                      !.keymap[k] = entry]
      L2 == IF L.tail # Undefined
              THEN [L1 EXCEPT !.newer[L.tail] = entry, !.older[entry] = L.tail]
              ELSE [L1 EXCEPT !.head = entry]
  IN [L2 EXCEPT !.tail = entry]

\* A put callback without `if (err) { done(err); return; }`.
PutStoreIODoneNoErrTest(L, k, err) == PutLink(L, k)

\* put/storeIODone up to `self.tail = entry`.
PutStoreIODone(L, k, err) ==
  IF err # NoErr THEN L ELSE PutLink(L, k)

\* The test `self.size > self.limit` in place of `===`.
AtLimitLate(L, lim) == L.size > lim

\* put/storeIODone: the test `self.size === self.limit`.
AtLimit(L, lim) == L.size = lim

\* put/storeIODone: the else branch of `self.size === self.limit`.
PutSize(L) == [L EXCEPT !.size = L.size + 1]

\* shift before its store call: the head is unlinked.
ShiftDetach(L) ==
  LET entry == L.head
      L1 == IF L.newer[entry] # Undefined
              THEN [L EXCEPT !.head = L.newer[entry],
                             !.older[L.newer[entry]] = Undefined]
              ELSE [L EXCEPT !.head = Undefined]
  IN [L1 EXCEPT !.newer[entry] = Undefined, !.older[entry] = Undefined]

\* shift/storeIODone.
ShiftStoreIODone(L, entry, err) ==
  IF err # NoErr THEN L
  ELSE [L EXCEPT !.keymap[L.key[entry]] = Undefined]

\* An unlink that leaves head on the promoted entry.
GetUnlinkKeepsHead(L, entry) ==
  LET nw == L.newer[entry]
      L1 == IF nw # Undefined
              THEN [L EXCEPT !.older[nw] = L.older[entry]]
              ELSE L
      od == L1.older[entry]
  IN IF od # Undefined
       THEN [L1 EXCEPT !.newer[od] = L1.newer[entry]]
       ELSE L1

\* get/storeIODone: the entry's neighbours (and head) are linked past it.
GetUnlink(L, entry) ==
  LET nw == L.newer[entry]
      L1 == IF nw # Undefined
              THEN [L EXCEPT !.head = IF entry = L.head THEN nw ELSE L.head,
                             !.older[nw] = L.older[entry]]
              ELSE L
      od == L1.older[entry]
  IN IF od # Undefined
       THEN [L1 EXCEPT !.newer[od] = L1.newer[entry]]
       ELSE L1

\* get/storeIODone: the entry is linked after the tail and becomes the tail.
GetAppend(L, entry) ==
  LET L1 == [L EXCEPT !.newer[entry] = Undefined, !.older[entry] = L.tail]
      L2 == IF L1.tail # Undefined
              THEN [L1 EXCEPT !.newer[L1.tail] = entry]
              ELSE L1
  IN [L2 EXCEPT !.tail = entry]

\* get/storeIODone.
GetStoreIODone(L, k, err) ==
  IF err # NoErr THEN L
  ELSE
    LET entry == L.keymap[k] IN
    IF entry = Undefined THEN L
    ELSE IF entry = L.tail THEN L
    ELSE GetAppend(GetUnlink(L, entry), entry)

\* remove/storeIODone: the four cases that link the neighbours, head and
\* tail past the entry.
RemoveUnlink(L, entry) ==
  LET nw == L.newer[entry]
      od == L.older[entry]
  IN IF nw # Undefined /\ od # Undefined
       THEN [L EXCEPT !.newer[od] = nw, !.older[nw] = od]
     ELSE IF nw # Undefined
       THEN [L EXCEPT !.older[nw] = Undefined, !.head = nw]
     ELSE IF od # Undefined
       THEN [L EXCEPT !.newer[od] = Undefined, !.tail = od]
     ELSE [L EXCEPT !.head = Undefined, !.tail = Undefined]

\* A remove callback without `if (!entry) { done(null); return; }`: a key
\* that is not in the key map still costs one of size.
RemoveStoreIODoneNoEntryTest(L, k, err) ==
  IF err # NoErr THEN L
  ELSE
    LET entry == L.keymap[k] IN
    IF entry = Undefined THEN [L EXCEPT !.size = L.size - 1]
    ELSE
      LET L1 == [L EXCEPT !.keymap[L.key[entry]] = Undefined]
          L2 == RemoveUnlink(L1, entry)
      IN [L2 EXCEPT !.size = L2.size - 1]

\* A remove callback without `delete self.keymap[entry.key]`.
RemoveStoreIODoneKeepsIndex(L, k, err) ==
  IF err # NoErr THEN L
  ELSE
    LET entry == L.keymap[k] IN
    IF entry = Undefined THEN L
    ELSE
      LET L2 == RemoveUnlink(L, entry)
      IN [L2 EXCEPT !.size = L2.size - 1]

\* remove/storeIODone.
RemoveStoreIODone(L, k, err) ==
  IF err # NoErr THEN L
  ELSE
    LET entry == L.keymap[k] IN
    IF entry = Undefined THEN L
    ELSE
      LET L1 == [L EXCEPT !.keymap[L.key[entry]] = Undefined]
          L2 == RemoveUnlink(L1, entry)
      IN [L2 EXCEPT !.size = L2.size - 1]

\* ------------------------------------------------------------ the state
\* What the last public call did: its name and key, the store calls it
\* issued, the err of its own store call (set, get or del) and of the del
\* of the eviction a put started, the err handed to done() and the entry
\* handed to done() as the shifted one.
NoCall ==
  [op |-> "none", key |-> Undefined, calls |-> <<>>, storeErr |-> NoErr,
   evictErr |-> NoErr, doneErr |-> NoErr, shifted |-> Undefined]

Commit(L) ==
  /\ size' = L.size
  /\ head' = L.head
  /\ tail' = L.tail
  /\ keymap' = L.keymap
  /\ key' = L.key
  /\ older' = L.older
  /\ newer' = L.newer

\* new LRUList({limit: n, set: ..., get: ..., del: ...}) over an empty store.
Construct(n) ==
  /\ size = 0
  /\ tail = Undefined
  /\ head = Undefined
  /\ limit = n
  /\ keymap = [k \in AllKeys |-> Undefined]
  /\ key = <<>>
  /\ older = <<>>
  /\ newer = <<>>
  /\ store = {}
  /\ last = NoCall
  /\ recency = <<>>
  /\ pending = <<>>

Init == \E n \in 1..MaxLimit : Construct(n)
InitOk == \E n \in 1..MaxOkLimit : Construct(n)
InitCalls == \E n \in 1..MaxCallLimit : Construct(n)

\* put(k, val, done) whose store.set reports an error.
PutFail(k, err) ==
  /\ Commit(PutStoreIODone(Self, k, err))
  /\ store' = store
  /\ recency' = recency
  /\ last' = [NoCall EXCEPT !.op = "put", !.key = k, !.calls = <<"set">>,
                            !.storeErr = err, !.doneErr = err]
  /\ UNCHANGED <<limit, pending>>

\* put(k, val, done) below the limit: store.set succeeds, size++.
PutGrow(k, cap) ==
  /\ Len(key) < cap
  /\ ~AtLimit(Self, limit)
  /\ Commit(PutSize(PutStoreIODone(Self, k, NoErr)))
  /\ store' = store \cup {k}
  /\ recency' = Append(Without(recency, k), k)
  /\ last' = [NoCall EXCEPT !.op = "put", !.key = k, !.calls = <<"set">>]
  /\ UNCHANGED <<limit, pending>>

\* put(k, val, done) at the limit: store.set succeeds, then self.shift(done)
\* unlinks the head and store.del of its key succeeds or reports derr.
PutEvict(k, derr, cap) ==
  /\ Len(key) < cap
  /\ AtLimit(Self, limit)
  /\ LET L1 == PutStoreIODone(Self, k, NoErr)
         entry == L1.head
     IN IF entry = Undefined
          THEN /\ derr = NoErr
               /\ Commit(L1)
               /\ store' = store \cup {k}
               /\ recency' = Append(Without(recency, k), k)
               /\ last' = [NoCall EXCEPT !.op = "put", !.key = k,
                                         !.calls = <<"set">>]
          ELSE /\ Commit(ShiftStoreIODone(ShiftDetach(L1), entry, derr))
               /\ store' = IF derr = NoErr
                             THEN (store \cup {k}) \ {L1.key[entry]}
                             ELSE store \cup {k}
               /\ recency' = IF derr = NoErr
                               THEN Without(Append(Without(recency, k), k),
                                            L1.key[entry])
                               ELSE Append(Without(recency, k), k)
               /\ last' = [NoCall EXCEPT !.op = "put", !.key = k,
                             !.calls = <<"set", "del">>, !.evictErr = derr,
                             !.doneErr = derr,
                             !.shifted = IF derr = NoErr THEN entry
                                         ELSE Undefined]
  /\ UNCHANGED <<limit, pending>>

\* shift(done): nothing to do without a head, else unlink the head and
\* store.del its key.
Shift(err) ==
  /\ IF head = Undefined
       THEN /\ err = NoErr
            /\ Commit(Self)
            /\ UNCHANGED <<store, recency>>
            /\ last' = [NoCall EXCEPT !.op = "shift"]
       ELSE /\ Commit(ShiftStoreIODone(ShiftDetach(Self), head, err))
            /\ store' = IF err = NoErr THEN store \ {key[head]} ELSE store
            /\ recency' = IF err = NoErr THEN Without(recency, key[head])
                          ELSE recency
            /\ last' = [NoCall EXCEPT !.op = "shift", !.key = key[head],
                          !.calls = <<"del">>, !.storeErr = err,
                          !.doneErr = err,
                          !.shifted = IF err = NoErr THEN head ELSE Undefined]
  /\ UNCHANGED <<limit, pending>>

\* get(k, done): store.get, then promote the indexed entry to the tail.
Get(k, err) ==
  /\ Commit(GetStoreIODone(Self, k, err))
  /\ store' = store
  /\ recency' = IF err = NoErr /\ keymap[k] # Undefined
                  THEN Append(Without(recency, k), k)
                  ELSE recency
  /\ last' = [NoCall EXCEPT !.op = "get", !.key = k, !.calls = <<"get">>,
                            !.storeErr = err, !.doneErr = err]
  /\ UNCHANGED <<limit, pending>>

\* remove(k, done): store.del, then unlink the indexed entry.
Remove(k, err) ==
  /\ Commit(RemoveStoreIODone(Self, k, err))
  /\ store' = IF err = NoErr THEN store \ {k} ELSE store
  /\ recency' = IF err = NoErr THEN Without(recency, k) ELSE recency
  /\ last' = [NoCall EXCEPT !.op = "remove", !.key = k, !.calls = <<"del">>,
                            !.storeErr = err, !.doneErr = err]
  /\ UNCHANGED <<limit, pending>>

\* ------------------------------------------ calls and store callbacks
\* The same operations with the store's answer as a step of its own: a call
\* step runs the body of the method up to its store call, a callback step
\* runs storeIODone.

\* Sequence s without its i-th element.
RemoveAt(s, i) == SubSeq(s, 1, i - 1) \o SubSeq(s, i + 1, Len(s))

\* A public call op(k) waiting for the callback of store call `call`;
\* entry is the entry shift captured, calls the store calls issued so far.
Waiting(op, call, k, entry, calls) ==
  [op |-> op, call |-> call, key |-> k, entry |-> entry, calls |-> calls]

\* The puts whose store.set has not answered: each will create an entry.
PendingSets == {i \in 1..Len(pending) : pending[i].call = "set"}

\* A put that links its entry before store.set has answered.
PutCallLinksEarly(k, cap, n) ==
  /\ Len(pending) < n
  /\ Len(key) + Cardinality(PendingSets) < cap
  /\ Commit(PutLink(Self, k))
  /\ pending' = Append(pending, Waiting("put", "set", k, Undefined, <<"set">>))
  /\ UNCHANGED <<limit, store, last, recency>>

\* put(k, val, done): defines storeIODone and calls store.set.
PutCall(k, cap, n) ==
  /\ Len(pending) < n
  /\ Len(key) + Cardinality(PendingSets) < cap
  /\ pending' = Append(pending, Waiting("put", "set", k, Undefined, <<"set">>))
  /\ UNCHANGED <<struct, limit, store, last, recency>>

\* put/storeIODone: the callback of store.set. At the limit it calls
\* self.shift(done), which unlinks the head and calls store.del.
PutSetDone(i, err) ==
  /\ i \in 1..Len(pending)
  /\ pending[i].call = "set"
  /\ LET k == pending[i].key
         L1 == PutStoreIODone(Self, k, err)
         entry == L1.head
         done == [NoCall EXCEPT !.op = "put", !.key = k, !.calls = <<"set">>,
                                !.storeErr = err, !.doneErr = err]
     IN IF err # NoErr
          THEN /\ Commit(L1)
               /\ pending' = RemoveAt(pending, i)
               /\ last' = done
               /\ UNCHANGED <<store, recency>>
          ELSE /\ store' = store \cup {k}
               /\ recency' = Append(Without(recency, k), k)
               /\ IF ~AtLimit(L1, limit)
                    THEN /\ Commit(PutSize(L1))
                         /\ pending' = RemoveAt(pending, i)
                         /\ last' = done
                    ELSE IF entry = Undefined
                      THEN /\ Commit(L1)
                           /\ pending' = RemoveAt(pending, i)
                           /\ last' = done
                      ELSE /\ Commit(ShiftDetach(L1))
                           /\ pending' = [pending EXCEPT ![i] =
                                Waiting("put", "del", k, entry, <<"set", "del">>)]
                           /\ last' = last
  /\ UNCHANGED limit

\* shift(done): returns done(null) without a head, else unlinks the head
\* and calls store.del.
ShiftCall(n) ==
  /\ Len(pending) < n
  /\ IF head = Undefined
       THEN /\ Commit(Self)
            /\ pending' = pending
            /\ last' = [NoCall EXCEPT !.op = "shift"]
       ELSE /\ Commit(ShiftDetach(Self))
            /\ pending' = Append(pending,
                 Waiting("shift", "del", key[head], head, <<"del">>))
            /\ last' = last
  /\ UNCHANGED <<limit, store, recency>>

\* shift/storeIODone: the callback of the store.del that shift called, for
\* a public shift or for the eviction of a put.
ShiftDelDone(i, err) ==
  /\ i \in 1..Len(pending)
  /\ pending[i].call = "del" /\ pending[i].op \in {"put", "shift"}
  /\ LET entry == pending[i].entry
         w == pending[i]
     IN /\ Commit(ShiftStoreIODone(Self, entry, err))
        /\ store' = IF err = NoErr THEN store \ {key[entry]} ELSE store
        /\ recency' = IF err = NoErr THEN Without(recency, key[entry])
                      ELSE recency
        /\ last' = IF w.op = "put"
                     THEN [NoCall EXCEPT !.op = "put", !.key = w.key,
                             !.calls = w.calls, !.evictErr = err,
                             !.doneErr = err,
                             !.shifted = IF err = NoErr THEN entry
                                         ELSE Undefined]
                     ELSE [NoCall EXCEPT !.op = "shift", !.key = w.key,
                             !.calls = w.calls, !.storeErr = err,
                             !.doneErr = err,
                             !.shifted = IF err = NoErr THEN entry
                                         ELSE Undefined]
  /\ pending' = RemoveAt(pending, i)
  /\ UNCHANGED limit

\* get(k, done): defines storeIODone and calls store.get.
GetCall(k, n) ==
  /\ Len(pending) < n
  /\ pending' = Append(pending, Waiting("get", "get", k, Undefined, <<"get">>))
  /\ UNCHANGED <<struct, limit, store, last, recency>>

\* get/storeIODone: the callback of store.get.
GetDone(i, err) ==
  /\ i \in 1..Len(pending)
  /\ pending[i].call = "get"
  /\ LET k == pending[i].key
     IN /\ Commit(GetStoreIODone(Self, k, err))
        /\ recency' = IF err = NoErr /\ keymap[k] # Undefined
                        THEN Append(Without(recency, k), k)
                        ELSE recency
        /\ last' = [NoCall EXCEPT !.op = "get", !.key = k,
                      !.calls = pending[i].calls,
                      !.storeErr = err, !.doneErr = err]
  /\ pending' = RemoveAt(pending, i)
  /\ UNCHANGED <<limit, store>>

\* remove(k, done): defines storeIODone and calls store.del.
RemoveCall(k, n) ==
  /\ Len(pending) < n
  /\ pending' = Append(pending,
       Waiting("remove", "del", k, Undefined, <<"del">>))
  /\ UNCHANGED <<struct, limit, store, last, recency>>

\* remove/storeIODone: the callback of store.del.
RemoveDone(i, err) ==
  /\ i \in 1..Len(pending)
  /\ pending[i].call = "del" /\ pending[i].op = "remove"
  /\ LET k == pending[i].key
     IN /\ Commit(RemoveStoreIODone(Self, k, err))
        /\ store' = IF err = NoErr THEN store \ {k} ELSE store
        /\ recency' = IF err = NoErr THEN Without(recency, k) ELSE recency
        /\ last' = [NoCall EXCEPT !.op = "remove", !.key = k,
                      !.calls = pending[i].calls,
                      !.storeErr = err, !.doneErr = err]
  /\ pending' = RemoveAt(pending, i)
  /\ UNCHANGED limit

\* -------------------------------------------------------- specifications
Next ==
  \/ \E k \in Keys, err \in Errs : PutFail(k, err)
  \/ \E k \in Keys : PutGrow(k, MaxEntries)
  \/ \E k \in Keys, derr \in Outcomes : PutEvict(k, derr, MaxEntries)
  \/ \E err \in Outcomes : Shift(err)
  \/ \E k \in Keys, err \in Outcomes : Get(k, err)
  \/ \E k \in Keys, err \in Outcomes : Remove(k, err)

Spec == Init /\ [][Next]_vars

\* Only put calls, the store never failing.
NextPuts ==
  \/ \E k \in OkKeys : PutGrow(k, MaxOkEntries)
  \/ \E k \in OkKeys : PutEvict(k, NoErr, MaxOkEntries)

SpecPuts == InitOk /\ [][NextPuts]_vars

\* Only put and get calls, the store never failing.
NextPutGet ==
  \/ \E k \in OkKeys : PutGrow(k, MaxOkEntries)
  \/ \E k \in OkKeys : PutEvict(k, NoErr, MaxOkEntries)
  \/ \E k \in OkKeys : Get(k, NoErr)

SpecPutGet == InitOk /\ [][NextPutGet]_vars

\* Serial successful puts that trigger no eviction, and successful removes.
NextPutRemove ==
  \/ \E k \in OkKeys : PutGrow(k, MaxOkEntries)
  \/ \E k \in OkKeys : Remove(k, NoErr)

SpecPutRemove == InitOk /\ [][NextPutRemove]_vars

\* A store callback fires.
Callbacks ==
  \E i \in 1..Len(pending), err \in Outcomes :
    PutSetDone(i, err) \/ ShiftDelDone(i, err) \/ GetDone(i, err)
      \/ RemoveDone(i, err)

\* Serial use with calls and callbacks as separate steps: a call is made
\* only after done() of the call before it; the store answers every call.
NextCalls ==
  \/ \E k \in CallKeys : PutCall(k, MaxCallEntries, 1)
  \/ ShiftCall(1)
  \/ \E k \in CallKeys : GetCall(k, 1)
  \/ \E k \in CallKeys : RemoveCall(k, 1)
  \/ \E i \in 1..Len(pending), err \in Outcomes : PutSetDone(i, err)
  \/ \E i \in 1..Len(pending), err \in Outcomes : ShiftDelDone(i, err)
  \/ \E i \in 1..Len(pending), err \in Outcomes : GetDone(i, err)
  \/ \E i \in 1..Len(pending), err \in Outcomes : RemoveDone(i, err)

SpecCalls == InitCalls /\ [][NextCalls]_vars /\ WF_vars(Callbacks)

\* Overlapping puts over a store that never fails: a put may be called
\* while others wait for the store, and the store answers in any order.
NextOverlap ==
  \/ \E k \in OkKeys : PutCall(k, MaxOkEntries, MaxInflight)
  \/ \E i \in 1..Len(pending) : PutSetDone(i, NoErr)
  \/ \E i \in 1..Len(pending) : ShiftDelDone(i, NoErr)

SpecOverlap == InitOk /\ [][NextOverlap]_vars

\* Serial use of all four operations over a store that never fails.
NextOk ==
  \/ \E k \in Keys : PutGrow(k, MaxOkEntries)
  \/ \E k \in Keys : PutEvict(k, NoErr, MaxOkEntries)
  \/ Shift(NoErr)
  \/ \E k \in Keys : Get(k, NoErr)
  \/ \E k \in Keys : Remove(k, NoErr)

SpecOk == InitOk /\ [][NextOk]_vars

\* Entry references stay within the entries created.
TypeOK ==
  /\ size \in Int
  /\ head \in 0..Len(key)
  /\ tail \in 0..Len(key)
  /\ Len(older) = Len(key) /\ Len(newer) = Len(key)

\* ---------------------------------------------------------- vocabulary
Entries == 1..Len(key)
Range(s) == {s[i] : i \in 1..Len(s)}
\* The entries toArray() visits that the key map maps their key to.
LiveEntries == {e \in Range(Chain) : keymap[key[e]] = e}
\* No two entries were created for the same key.
DistinctKeys == \A i, j \in Entries : key[i] = key[j] => i = j

\* C1: size never exceeds limit.
C1_SizeWithinLimit == size <= limit

\* A put at the limit has evicted an entry and size is the limit.
C1_Witness ==
  /\ last.op = "put" /\ last.shifted # Undefined
  /\ size = limit

\* C2: under put calls only, with the store succeeding, once limit puts
\* have succeeded a further put evicts the least recently used indexed key
\* and only that key: it leaves the key map, the chain and the store, and
\* every other indexed key stays indexed and stored.
C2_EvictsOldestLiveKey ==
  [][Len(key) >= limit /\ Len(key') > Len(key) =>
       /\ recency # <<>>
       /\ LET ev == Head(recency) IN
            /\ keymap'[ev] = Undefined
            /\ ev \notin Range(toArray')
            /\ ev \notin store'
            /\ \A k \in AllKeys \ {ev} :
                 keymap[k] # Undefined => keymap'[k] # Undefined /\ k \in store'
            /\ \A k \in AllKeys \ {ev} : k \in store => k \in store']_vars

\* C3: under successful put and get calls on distinct keys with fewer puts
\* than limit, toArray() is the keys that were put, in the order of their
\* most recent successful put or get, least recent first.
C3_LruOrdering == DistinctKeys /\ Len(key) < limit => toArray = recency

\* Three distinct keys were put below the limit and a get has promoted one
\* of them, so that toArray() is no longer in insertion order.
C3_Witness ==
  /\ DistinctKeys /\ Len(key) < limit /\ Len(key) >= 3
  /\ last.op = "get" /\ last.doneErr = NoErr
  /\ toArray # key
  /\ toArray[Len(toArray)] = last.key

\* C4: a put, get or remove whose own store call reports an error leaves
\* head, tail, links, key map and size alone and hands done() that error.
C4_FailureAtomic ==
  [][last'.op \in {"put", "get", "remove"} /\ last'.storeErr # NoErr =>
       UNCHANGED struct /\ last'.doneErr = last'.storeErr]_vars

\* A put at the limit whose store.set reported an error.
C4_Witness ==
  /\ last.op = "put" /\ last.storeErr \in Errs
  /\ last.doneErr = last.storeErr
  /\ size = limit /\ head # Undefined

\* C5: no call in which a store callback reports an error modifies head,
\* tail, links, key map or size.
C5_NoChangeOnAnyErr ==
  [][last'.storeErr # NoErr \/ last'.evictErr # NoErr =>
       UNCHANGED struct]_vars

\* C6: a key is in toArray() exactly when the store holds a value for it.
C6_ChainAgreesWithStore ==
  \A k \in AllKeys : k \in Range(toArray) <=> k \in store

\* C7: size is the number of live entries: the entries toArray() visits
\* that the key map maps their key to.
C7_SizeCountsLive == size = Cardinality(LiveEntries)

\* C8: the links are doubly consistent and acyclic for every entry that was
\* ever created: the neighbours of an entry point back at it, and following
\* newer links from an entry never comes back to it.
C8_ChainConsistent ==
  \A e \in Entries :
    /\ newer[e] # Undefined => older[newer[e]] = e
    /\ older[e] # Undefined => newer[older[e]] = e
    /\ e \notin Range(Walk(Self, newer[e], Len(key)))

\* C9: head and tail are set together, head has no older, tail no newer,
\* and the walk from head ends at tail.
C9_Anchors ==
  /\ head = Undefined <=> tail = Undefined
  /\ head # Undefined => older[head] = Undefined
  /\ tail # Undefined => newer[tail] = Undefined
  /\ head # Undefined => Chain[Len(Chain)] = tail

\* C10: a remove(k) whose del succeeds, k indexed, takes exactly the
\* indexed entry out: k leaves the key map, size drops by one and the walk
\* from head loses that entry and nothing else.
C10_RemoveUnlinksEntry ==
  [][last'.op = "remove" /\ last'.storeErr = NoErr
       /\ keymap[last'.key] # Undefined =>
       /\ keymap'[last'.key] = Undefined
       /\ size' = size - 1
       /\ Chain' = Without(Chain, keymap[last'.key])]_vars

Occurrences(k, ks) == Cardinality({i \in 1..Len(ks) : ks[i] = k})

\* Entries that the key map does not point to: orphaned, evicted or removed.
Unindexed == {e \in Entries : keymap[key[e]] # e}

\* C12: a successful put(k) that takes the size++ branch while k is in the
\* key map leaves the old entry where it is in the chain, appends the new
\* entry at the tail and points the key map at it, so that toArray() holds k
\* twice; a get moves no entry but the one the key map holds for its key, and
\* an entry the key map has let go of is never pointed to again.
C12_DuplicateOrphans ==
  [][/\ last'.op = "put" /\ Len(key') > Len(key) /\ size' = size + 1
        /\ keymap[last'.key] # Undefined =>
          LET old == keymap[last'.key]
              new == Len(key')
          IN /\ Chain' = Append(Chain, new)
             /\ old \in Range(Chain')
             /\ keymap'[last'.key] = new /\ tail' = new
             /\ Occurrences(last'.key, toArray') >= 2
     /\ last'.op = "get" =>
          IF keymap[last'.key] = Undefined THEN Chain' = Chain
          ELSE Without(Chain', keymap[last'.key]) = Without(Chain, keymap[last'.key])
     /\ \A e \in Unindexed : keymap'[key[e]] # e]_vars

\* The keys the key map holds an entry for.
IndexedKeys == {k \in AllKeys : keymap[k] # Undefined}

\* C13: in serial use by successful puts that trigger no eviction and
\* successful removes, the keys of the key map are the keys put and not
\* removed since: those whose last put was followed by no remove.
C13_IndexIsPutMinusRemoved == IndexedKeys = Range(recency)

\* A key was removed after three puts, another key is still in the key map,
\* and the removed key had been put more than once.
C13_Witness ==
  /\ last.op = "remove" /\ last.doneErr = NoErr
  /\ Len(key) >= 3 /\ IndexedKeys # {}
  /\ last.key \notin IndexedKeys
  /\ Occurrences(last.key, key) >= 2

\* C14: size is never negative.
C14_SizeNonNegative == size >= 0

\* The step answers a store call: a waiting call is done, or it goes on to
\* wait for another store call.
CallbackStep ==
  \E i \in 1..Len(pending) :
    \/ pending' = RemoveAt(pending, i)
    \/ pending' # pending /\ pending' = [pending EXCEPT ![i] = pending'[i]]

\* The step is the body of a shift() that found a head.
ShiftCallStep ==
  /\ pending' = Append(pending, pending'[Len(pending')])
  /\ pending'[Len(pending')].op = "shift"

\* Every call that waits for the store gets its done() call.
EveryCallIsDone == (pending # <<>>) ~> (pending = <<>>)

IsPermutation(a, b) ==
  /\ Len(a) = Len(b)
  /\ \A k \in AllKeys : Occurrences(k, a) = Occurrences(k, b)

\* C16: a get(k), whatever its outcome, leaves size, key map and store as
\* they were and toArray() a permutation of what it was; when k is not in
\* the key map or its entry is the tail, head, tail and links stay too.
C16_GetOnlyPromotes ==
  [][last'.op = "get" =>
       /\ size' = size /\ keymap' = keymap /\ store' = store
       /\ IsPermutation(toArray', toArray)
       /\ keymap[last'.key] = Undefined \/ keymap[last'.key] = tail =>
            UNCHANGED <<head, tail, older, newer>>]_vars

\* The chain invariants of the data model: head and tail are both set or
\* both undefined, head has no older and tail no newer entry, the walk from
\* head ends at tail and meets no entry twice, and the links of the entries
\* on it agree.
ChainWellFormed ==
  /\ head = Undefined <=> tail = Undefined
  /\ head # Undefined =>
       /\ older[head] = Undefined /\ newer[tail] = Undefined
       /\ Chain[Len(Chain)] = tail
  /\ Cardinality(Range(Chain)) = Len(Chain)
  /\ \A e \in Range(Chain) :
       /\ newer[e] # Undefined => older[newer[e]] = e
       /\ older[e] # Undefined => newer[older[e]] = e

\* The chain that serial puts build: the entries created last, as many as
\* size counts, in the order of their creation.
NewestEntries == [i \in 1..size |-> Len(key) - size + i]

C18_PutPostcondition ==
  [][last'.op = "put" /\ last'.doneErr = NoErr /\ Len(key') > Len(key) =>
       /\ keymap'[last'.key] # Undefined
       /\ keymap'[last'.key] = tail'
       /\ toArray' # <<>>
       /\ toArray'[Len(toArray')] = last'.key
       /\ last'.key \in store']_vars

\* C19: with every store call succeeding, every entry of the key map is
\* reachable from head, so that every key of the key map is in toArray().
C19_IndexedReachable ==
  \A k \in IndexedKeys :
    keymap[k] \in Range(Chain) /\ k \in Range(toArray)

\* C20: toArray() returns at most limit entries and the key map holds at
\* most limit keys.
C20_CountsWithinLimit ==
  /\ Len(toArray) <= limit
  /\ Cardinality(IndexedKeys) <= limit

====
